---- MODULE Spec2Model ----
(***************************************************************************)
(* A model of client.c, the Internet Gopher crawler and analyser.          *)
(*                                                                         *)
(* Strings are sequences of bytes; a byte is a one-character string and    *)
(* the C terminator is the token NUL.  A pointer into a buffer is a        *)
(* 1-based index, the null pointer is 0.  The server's answer to one       *)
(* request is a sequence of recv events (a chunk of bytes, end of stream,  *)
(* a receive timeout or a receive failure), each carrying the outcome of   *)
(* the select call that follows it where the handler makes one.            *)
(***************************************************************************)
EXTENDS Integers, Sequences, FiniteSets

\* ------------------------------------------------------------ constants

BUFFER_SIZE == 4096
FILE_LIMIT == 65536
\* response_timeout.tv_sec of evaluate_file_size and print_response
RESPONSE_TIMEOUT == 5

DIRECTORY == 0
TEXT == 1
BINARY == 2
ERROR == 3
EXTERNAL == 4
TIMEOUT == 5
TOO_LARGE == 6

NUL == "NUL"
TAB == "\t"
CR == "\r"
LF == "\n"
VT == ""
FF == "\f"
NULL == 0

\* A run of bytes that the program reads without having written them: how
\* many they are and what they are is not determined by the program (none, the
\* bytes an earlier frame left there, or anything else up to the first zero
\* byte).
UNINIT == "UNINIT"

\* ------------------------------------------------------------ C strings

\* The byte at index i of a buffer; the memory after the modelled part of a
\* buffer reads as a terminator.
ByteAt(buf, i) == IF i >= 1 /\ i <= Len(buf) THEN buf[i] ELSE NUL

RECURSIVE strlen(_, _)
strlen(buf, p) == IF ByteAt(buf, p) = NUL THEN 0 ELSE 1 + strlen(buf, p + 1)

\* The C string that starts at index p of buf.
CStr(buf, p) == SubSeq(buf, p, p + strlen(buf, p) - 1)

\* recv of the bytes of a chunk into buffer, then buffer[bytes_received] = '\0':
\* what the buffer held beyond that stays.  With bytes_received = -1 the
\* terminator is written outside the buffer, which stays as it was.
RecvInto(buf, ev) ==
    IF ev.n > 0
    THEN ev.bytes \o <<NUL>> \o SubSeq(buf, ev.n + 2, Len(buf))
    ELSE buf

\* ------------------------------------------------------------ registry

create_new_entry(item_type, path) == [item_type |-> item_type, record |-> path]

add_item_no_dedup(l, new_item) == Append(l, new_item)

add_item_by_record(l, new_item) ==
    IF l = <<>> THEN <<new_item>>
    ELSE IF \E i \in 1..Len(l) : l[i].record = new_item.record THEN l
    ELSE Append(l, new_item)

add_item_at_head(l, new_item) ==
    IF l = <<>> THEN <<new_item>>
    ELSE IF \E i \in 1..Len(l) :
               l[i].item_type = new_item.item_type /\ l[i].record = new_item.record
         THEN l
    ELSE <<new_item>> \o l

add_item(l, new_item) ==
    IF l = <<>> THEN <<new_item>>
    ELSE IF \E i \in 1..Len(l) :
               l[i].item_type = new_item.item_type /\ l[i].record = new_item.record
         THEN l
    ELSE Append(l, new_item)

\* ------------------------------------------------------------ menu parser

RECURSIVE find_crlf(_, _)
find_crlf(buf, i) ==
    IF ByteAt(buf, i) = NUL THEN NULL
    ELSE IF buf[i] = CR /\ ByteAt(buf, i + 1) = LF THEN i
    ELSE find_crlf(buf, i + 1)

\* Cuts the line at its CRLF; next is the start of the following line or NULL.
find_next_line(buf, ptr) ==
    LET i == find_crlf(buf, ptr)
    IN  IF i = NULL THEN [buf |-> buf, next |-> NULL]
        ELSE [buf |-> [buf EXCEPT ![i] = NUL],
              next |-> IF ByteAt(buf, i + 2) = NUL THEN NULL ELSE i + 2]

is_binary_file_canonical(type) == type = "9"

is_binary_file(type) ==
    type \in {"9", "4", "5", "6", "g", "I", ":", ";", "<", "d", "h", "p", "r", "s", "P", "X"}

RECURSIVE find_byte(_, _, _)
find_byte(buf, i, set) ==
    IF ByteAt(buf, i) = NUL THEN NULL
    ELSE IF buf[i] \in set THEN i
    ELSE find_byte(buf, i + 1, set)

\* start is the byte after the first tab (NULL without a tab); the second
\* loop reads *start, so a NULL start is a null dereference (fault).
extract_pathname(buf, line) ==
    LET t == find_byte(buf, line, {TAB})
        start == IF t = NULL THEN NULL ELSE t + 1
        e == IF start = NULL THEN NULL ELSE find_byte(buf, start, {TAB, CR, LF})
    IN  [buf |-> IF e = NULL THEN buf ELSE [buf EXCEPT ![e] = NUL],
         start |-> start,
         fault |-> start = NULL]

index_line(buf, line, request, l) ==
    LET type == ByteAt(buf, line)
        item_type == IF type = "1" THEN DIRECTORY
                     ELSE IF type = "0" THEN TEXT
                     ELSE IF is_binary_file(type) THEN BINARY
                     ELSE ERROR
    IN  IF type = "3"
        THEN [buf |-> buf, list |-> add_item(l, create_new_entry(ERROR, request)),
              fault |-> FALSE]
        ELSE IF item_type = ERROR
        THEN [buf |-> buf, list |-> l, fault |-> FALSE]
        ELSE LET x == extract_pathname(buf, line)
             IN  IF x.fault THEN [buf |-> x.buf, list |-> l, fault |-> TRUE]
                 ELSE IF ByteAt(x.buf, x.start) = "/"
                 THEN [buf |-> x.buf,
                       list |-> add_item(l, create_new_entry(item_type, CStr(x.buf, x.start))),
                       fault |-> FALSE]
                 ELSE IF item_type = DIRECTORY /\ ByteAt(x.buf, x.start) = NUL
                 THEN [buf |-> x.buf,
                       list |-> add_item(l, create_new_entry(EXTERNAL, CStr(x.buf, x.start + 1))),
                       fault |-> FALSE]
                 ELSE [buf |-> x.buf, list |-> l, fault |-> FALSE]

\* The inner do-while of indexing: every line of the buffer, from `line` on.
RECURSIVE index_lines(_, _, _, _)
index_lines(buf, line, request, l) ==
    LET f == find_next_line(buf, line)
        r == index_line(f.buf, line, request, l)
    IN  IF r.fault \/ f.next = NULL THEN r
        ELSE index_lines(r.buf, f.next, request, r.list)

\* ------------------------------------------------------------ recv events

Data(bytes) == [kind |-> "data", n |-> Len(bytes), bytes |-> bytes, sel |-> "ready"]
\* A chunk of n bytes whose content is not read by the handler (size meter).
Bulk(n) == [kind |-> "data", n |-> n, bytes |-> <<>>, sel |-> "ready"]
Eof == [kind |-> "eof", n |-> 0, bytes |-> <<>>, sel |-> "ready"]
RecvTimeout == [kind |-> "timeout", n |-> -1, bytes |-> <<>>, sel |-> "ready"]
RecvFailure == [kind |-> "fail", n |-> -1, bytes |-> <<>>, sel |-> "ready"]
\* The same event, with the select that follows it expiring / failing.
Stalled(ev) == [ev EXCEPT !.sel = "timeout"]
SelectError(ev) == [ev EXCEPT !.sel = "error"]

\* The i-th recv of a response; the stream is closed once its events are used up.
Ev(resp, i) == IF i <= Len(resp) THEN resp[i] ELSE Eof

\* ------------------------------------------------------------ handlers

\* The outer do-while of indexing, from the i-th recv on.
RECURSIVE indexing_loop(_, _, _, _, _)
indexing_loop(request, l, resp, i, buf) ==
    LET r == index_lines(RecvInto(buf, Ev(resp, i)), 1, request, l)
    IN  IF r.fault THEN [list |-> r.list, ret |-> 0, recvs |-> i, fault |-> TRUE]
        ELSE IF Ev(resp, i + 1).n > 0
        THEN indexing_loop(request, r.list, resp, i + 1, r.buf)
        ELSE [list |-> r.list, ret |-> 0, recvs |-> i + 1, fault |-> FALSE]

\* indexing(request): buf is what the uninitialised buffer holds on entry.
indexing(request, l, resp, buf) ==
    LET first == Ev(resp, 1)
        l1 == IF first.kind = "timeout"
              THEN add_item(l, create_new_entry(TIMEOUT, request))
              ELSE l
    IN  IF first.n = 0
        THEN [list |-> l1, ret |-> 0, recvs |-> 1, fault |-> FALSE]
        ELSE indexing_loop(request, l1, resp, 1, buf)

size_limit_reached_after(size) == size > FILE_LIMIT

size_limit_reached(size) == size >= FILE_LIMIT

\* evaluate_file_size up to its loop, ev being the first recv: done with ret,
\* or the loop is entered with size 0.
meter_first(request, l, ev) ==
    IF ev.n = -1
    THEN [list |-> IF ev.kind = "timeout"
                   THEN add_item(l, create_new_entry(TIMEOUT, request))
                   ELSE l,
          size |-> 0, ret |-> -2, done |-> TRUE]
    ELSE IF ev.n = 0
    THEN [list |-> l, size |-> 0, ret |-> 0, done |-> TRUE]
    ELSE [list |-> l, size |-> 0, ret |-> 0, done |-> FALSE]

\* The body of the do-while of evaluate_file_size, ev being the chunk just
\* received: select, then the count and the limit.
meter_body(request, l, size, ev) ==
    IF ev.sel = "timeout"
    THEN [list |-> add_item(l, create_new_entry(TIMEOUT, request)),
          size |-> size, ret |-> -2, done |-> TRUE]
    ELSE IF size_limit_reached(size + ev.n)
    THEN [list |-> l, size |-> size + ev.n, ret |-> -1, done |-> TRUE]
    ELSE [list |-> l, size |-> size + ev.n, ret |-> 0, done |-> FALSE]

\* The condition of the do-while, ev being the recv it makes: the body runs
\* again, or the function returns size.
meter_next(l, size, ev) ==
    [list |-> l, size |-> size, ret |-> size, done |-> ~(ev.n > 0)]

RECURSIVE meter_loop(_, _, _, _, _)
meter_loop(request, l, resp, i, size) ==
    LET b == meter_body(request, l, size, Ev(resp, i))
        n == meter_next(b.list, b.size, Ev(resp, i + 1))
    IN  IF b.done
        THEN [list |-> b.list, ret |-> b.ret, recvs |-> i, fault |-> FALSE]
        ELSE IF n.done
        THEN [list |-> n.list, ret |-> n.ret, recvs |-> i + 1, fault |-> FALSE]
        ELSE meter_loop(request, n.list, resp, i + 1, n.size)

evaluate_file_size(request, l, resp) ==
    LET f == meter_first(request, l, Ev(resp, 1))
    IN  IF f.done
        THEN [list |-> f.list, ret |-> f.ret, recvs |-> 1, fault |-> FALSE]
        ELSE meter_loop(request, f.list, resp, 1, f.size)

\* strstr(buffer, ".\r\n"): the first index from p on where the three bytes start.
RECURSIVE strstr_terminator(_, _)
strstr_terminator(buf, p) ==
    IF ByteAt(buf, p) = NUL THEN NULL
    ELSE IF buf[p] = "." /\ ByteAt(buf, p + 1) = CR /\ ByteAt(buf, p + 2) = LF THEN p
    ELSE strstr_terminator(buf, p + 1)

\* The do-while of print_response, from the i-th recv on; out is what has been
\* written to stdout after the heading.
RECURSIVE print_loop(_, _, _, _, _, _)
print_loop(request, l, resp, i, buf, out) ==
    LET ev == Ev(resp, i)
        b == RecvInto(buf, ev)
        eof == strstr_terminator(b, 1)
        b1 == IF eof = NULL THEN b ELSE [b EXCEPT ![eof] = NUL]
        out1 == out \o CStr(b1, 1)
    IN  IF ev.sel = "timeout"
        THEN [list |-> add_item(l, create_new_entry(TIMEOUT, request)),
              ret |-> -1, recvs |-> i, out |-> out, fault |-> FALSE]
        ELSE IF Ev(resp, i + 1).n > 0
        THEN print_loop(request, l, resp, i + 1, b1, out1)
        ELSE [list |-> l, ret |-> 0, recvs |-> i + 1, out |-> out1, fault |-> FALSE]

\* print_response(request): its buffer is not initialised, so what it holds
\* on entry is the indeterminate run UNINIT; after a first recv of -1 that run
\* is what strstr searches and fprintf writes.
print_response(request, l, resp) ==
    LET first == Ev(resp, 1)
        buf == <<UNINIT>>
        l1 == IF first.kind = "timeout"
              THEN add_item(l, create_new_entry(TIMEOUT, request))
              ELSE l
    IN  IF first.n = 0
        THEN [list |-> l1, ret |-> 0, recvs |-> 1, out |-> <<>>, fault |-> FALSE]
        ELSE print_loop(request, l1, resp, 1, buf, <<>>)

\* The indices of the writes buffer[bytes_received] = '\0' made by indexing or
\* print_response in a call that ended with result r: one for each recv whose
\* result entered the body of the do-while and got past the select (r.recvs
\* counts the recv calls; the last one ended the loop unless the process died
\* in the body).
terminator_writes(resp, r) ==
    {Ev(resp, i).n : i \in 1..(IF r.fault THEN r.recvs ELSE r.recvs - 1)}

\* ------------------------------------------------------------ prober

RECURSIVE skip_bytes(_, _, _)
skip_bytes(s, i, delims) ==
    IF ByteAt(s, i) \in delims THEN skip_bytes(s, i + 1, delims) ELSE i

\* strtok from index `from` of s: the token (null: no token is left) and the
\* index where the next call resumes.
strtok(s, from, delims) ==
    LET b == skip_bytes(s, from, delims)
        e == find_byte(s, b, delims)
        stop == IF e = NULL THEN b + strlen(s, b) ELSE e
    IN  IF ByteAt(s, b) = NUL
        THEN [null |-> TRUE, tok |-> <<>>, save |-> b]
        ELSE [null |-> FALSE, tok |-> SubSeq(s, b, stop - 1),
              save |-> IF e = NULL THEN stop ELSE e + 1]

DigitValue(ch) ==
    CASE ch = "0" -> 0 [] ch = "1" -> 1 [] ch = "2" -> 2 [] ch = "3" -> 3
      [] ch = "4" -> 4 [] ch = "5" -> 5 [] ch = "6" -> 6 [] ch = "7" -> 7
      [] ch = "8" -> 8 [] ch = "9" -> 9 [] OTHER -> -1

\* The magnitude strtol accumulates is a long: it is kept here as four limbs
\* of 16 bits, least significant first, with a flag set once it has passed
\* LONG_MAX.  This is acc * 10 + d.
times10plus(acc, d) ==
    LET x0 == acc[1] * 10 + d
        x1 == acc[2] * 10 + (x0 \div 65536)
        x2 == acc[3] * 10 + (x1 \div 65536)
        x3 == acc[4] * 10 + (x2 \div 65536)
    IN  <<x0 % 65536, x1 % 65536, x2 % 65536, x3 % 65536, acc[5] \/ x3 >= 32768>>

\* The run of decimal digits of s from index i on, accumulated onto acc.
RECURSIVE strtol_digits(_, _, _)
strtol_digits(s, i, acc) ==
    IF DigitValue(ByteAt(s, i)) < 0 THEN acc
    ELSE strtol_digits(s, i + 1, times10plus(acc, DigitValue(s[i])))

\* (int) of the long: a magnitude out of range gives LONG_MAX or LONG_MIN,
\* whose low 32 bits are -1 and 0; otherwise the low 32 bits of the value,
\* read as a signed int.
long_to_int(acc, negative) ==
    LET lo == IF negative THEN (65536 - acc[1]) % 65536 ELSE acc[1]
        hi == IF ~negative THEN acc[2]
              ELSE IF acc[1] = 0 THEN (65536 - acc[2]) % 65536
              ELSE 65535 - acc[2]
    IN  IF acc[5] THEN (IF negative THEN 0 ELSE -1)
        ELSE IF hi >= 32768 THEN (hi - 65536) * 65536 + lo
        ELSE hi * 65536 + lo

\* The bytes isspace accepts in the C locale.
isspace == {" ", TAB, LF, VT, FF, CR}

\* atoi(s) = (int) strtol(s, NULL, 10): white space is skipped, one sign is
\* taken, then the digits.
atoi(s) ==
    LET b == skip_bytes(s, 1, isspace)
        signed == ByteAt(s, b) \in {"+", "-"}
        negative == ByteAt(s, b) = "-"
    IN  long_to_int(strtol_digits(s, IF signed THEN b + 1 ELSE b, <<0, 0, 0, 0, FALSE>>),
                    negative)

\* The command line: the primary server's port (argv[2]) and the address its
\* host name (argv[1]) resolved to.
port == 7
server_addr == "addr_p"

\* The resolver: host p is the primary server, h another server, any other
\* name does not resolve (gethostbyname returns NULL).
gethostbyname(name) ==
    IF name = <<"p">> THEN "addr_p"
    ELSE IF name = <<"h">> THEN "addr_h"
    ELSE "NULL"

\* How the socket set-up of a probe may go: socket() and setsockopt() succeed,
\* or one of them fails.
ProbeSetups == {"ok", "socket_fails", "setsockopt_fails"}

\* test_external_servers(item); setup says how socket() and setsockopt() go,
\* connects whether the connect completes with SO_ERROR = 0 within the
\* deadline.  socket: a descriptor was created (none is ever closed); exit:
\* exit(EXIT_FAILURE) was called; fault: a null pointer was dereferenced;
\* attempt: connect was called; line: the line printed, <<host, port, up>>.
test_external_servers(item, setup, connects) ==
    LET h == strtok(item.record, 1, {TAB})
        p == strtok(item.record, h.save, {CR, LF})
        ext_server == IF h.null THEN "NULL" ELSE gethostbyname(h.tok)
        none == [socket |-> FALSE, exit |-> FALSE, fault |-> FALSE, attempt |-> FALSE,
                 line |-> <<>>]
    IN  IF item.item_type # EXTERNAL THEN none
        ELSE IF setup = "socket_fails" THEN [none EXCEPT !.exit = TRUE]
        ELSE IF setup = "setsockopt_fails" THEN [none EXCEPT !.socket = TRUE, !.exit = TRUE]
        ELSE IF h.null \/ p.null \/ ext_server = "NULL"
        THEN [none EXCEPT !.socket = TRUE, !.fault = TRUE]
        ELSE IF ext_server = server_addr /\ atoi(p.tok) = port
        THEN [none EXCEPT !.socket = TRUE]
        ELSE [none EXCEPT !.socket = TRUE, !.attempt = TRUE,
                          !.line = <<h.tok, p.tok, connects>>]

\* ------------------------------------------------------------ the server

Line(type, display, selector, host, portstr) ==
    <<type>> \o display \o <<TAB>> \o selector \o <<TAB>> \o host \o <<TAB>> \o portstr
        \o <<CR, LF>>

LRoot == Line("1", <<"r">>, <<"/">>, <<"p">>, <<"7">>)
LDirA == Line("1", <<"a">>, <<"/", "a">>, <<"p">>, <<"7">>)
LText == Line("0", <<"t">>, <<"/", "t">>, <<"p">>, <<"7">>)
LText2 == Line("0", <<"u">>, <<"/", "u">>, <<"p">>, <<"7">>)
LBin == Line("9", <<"b">>, <<"/", "b">>, <<"p">>, <<"7">>)
LErr == Line("3", <<"0", "e">>, <<"/", "e">>, <<"x">>, <<"1">>)
LExt == Line("1", <<"e">>, <<>>, <<"h">>, <<"7">>)
LSelf == Line("1", <<"s">>, <<>>, <<"p">>, <<"7">>)
LGone == Line("1", <<"g">>, <<>>, <<"x">>, <<"7">>)
LInfo == Line("i", <<"i">>, <<>>, <<"n">>, <<"0">>)
LTerm == <<".", CR, LF>>

\* The answers the server may give to a menu request.
MenuResponses ==
    { <<>>,
      <<RecvTimeout>>,
      <<RecvFailure>>,
      <<Data(LRoot \o LText \o LTerm)>>,
      <<Data(LDirA \o LText2 \o LInfo), Data(LBin \o LTerm)>>,
      <<Data(LErr \o LErr)>>,
      <<Data(<<"3">>), Data(Tail(LErr))>>,
      <<Data(LBin \o <<"1">>), Data(Tail(LDirA))>>,
      <<Data(LExt \o LSelf \o LExt)>>,
      <<Data(LGone \o LTerm)>> }

\* What the receive buffer of indexing may hold on entry (it is not
\* initialised, and the handlers' buffers share their place on the stack), as
\* far as the parser tells contents apart: nothing, the remains of a menu
\* line, the bytes of a file that evaluate_file_size received (a file is
\* served as bytes x), or a byte of some other frame.
StaleBuffers == { <<>>, <<"0", "t", TAB, "/", "t">>, <<"x", "x", "x">>, <<"">> }

\* The answers the server may give to a file request, for the size meter.
FileResponses ==
    { <<>>,
      <<Bulk(3)>>,
      <<Bulk(2), Bulk(3)>>,
      [i \in 1..(FILE_LIMIT \div BUFFER_SIZE) |-> Bulk(BUFFER_SIZE)],
      <<RecvTimeout>>,
      <<RecvFailure>>,
      <<Bulk(3), Stalled(Bulk(2))>> }

\* The bytes of the chunks of a response, in order.
RECURSIVE Served(_)
Served(resp) ==
    IF resp = <<>> THEN <<>>
    ELSE (IF Head(resp).kind = "data" THEN Head(resp).bytes ELSE <<>>) \o Served(Tail(resp))

\* The answers the server may give to the request for the smallest text file.
ContentResponses ==
    { <<>>,
      <<Data(<<"h", ".", CR>>), Data(<<LF, "x">>)>>,
      <<Data(<<"h", "i", LF>>)>>,
      <<Data(<<"h", "i", LF, ".", CR, LF>>), Data(<<"x">>)>>,
      <<RecvTimeout>>,
      <<Data(<<"h">>), Stalled(Data(<<"i">>))>> }

\* ------------------------------------------------------------ state

VARIABLES
    status,         \* "running", "done" (main returned 0), "exit_failure", "segv"
    pc,             \* where main / evaluate stands
    call,           \* gopher_connect: "idle", "open" (request sent), "returned"
    func,           \* the response handler of the open call
    new_request,    \* the request line of the open call
    output,         \* what the handler returned
    fd_open,        \* the sockets to the primary server that are open
    list,           \* the linked list of indexed items, head first
    c,              \* the cursor of the loop that walks the list (Len(list)+1: NULL)
    num_of_directories,
    num_of_text_files,
    num_of_binary_files,
    num_of_invalid_references,
    smallest_text_file,     \* the entry whose record it points to (NULL: none)
    size_of_smallest_text_file,
    size_of_largest_text_file,
    size_of_smallest_binary_file,
    size_of_largest_binary_file,
    sent,           \* history: the request lines sent, with their handlers
    metered,        \* history: the file sizes evaluate got, per entry
    probed,         \* history: the calls of test_external_servers past its socket set-up
    ext_fds,        \* the probe sockets created and not closed
    printed,        \* what print_response wrote after its heading
    recvs,          \* the recv calls of the handler, so far (see counted)
    size,           \* evaluate_file_size: the bytes counted so far
    total,          \* the length of the file the server is sending
    delivered,      \* the bytes of it that recv has returned
    first_recv,     \* history: how the first recv of the handler that ran last ended
    menu,           \* the bytes of the menu the server is sending
    cuts,           \* history: where recv cut them into chunks
    content,        \* history: the bytes the server sent for the smallest text file
    response_timeout,   \* the seconds left in the timeval handed to select
    gap,            \* history: the seconds the last select had to wait for the next chunk
    nul_at          \* history: the indices i of the writes buffer[i] = '\0' of the last handler

ctl == <<pc, call, func, new_request, output, fd_open>>
counts == <<num_of_directories, num_of_text_files, num_of_binary_files,
            num_of_invalid_references>>
sizes == <<smallest_text_file, size_of_smallest_text_file, size_of_largest_text_file,
           size_of_smallest_binary_file, size_of_largest_binary_file>>
history == <<sent, metered, probed, ext_fds, printed, recvs>>
stream == <<size, total, delivered, first_recv, menu, cuts, content, response_timeout, gap,
            nul_at>>
vars == <<status, ctl, list, c, counts, sizes, history, stream>>

Init ==
    /\ status = "running"
    /\ pc = "main_root"
    /\ call = "idle"
    /\ func = "none"
    /\ new_request = <<>>
    /\ output = 0
    /\ fd_open = 0
    /\ list = <<>>
    /\ c = NULL
    /\ num_of_directories = 0
    /\ num_of_text_files = 0
    /\ num_of_binary_files = 0
    /\ num_of_invalid_references = 0
    /\ smallest_text_file = NULL
    /\ size_of_smallest_text_file = -1
    /\ size_of_largest_text_file = -1
    /\ size_of_smallest_binary_file = -1
    /\ size_of_largest_binary_file = -1
    /\ sent = <<>>
    /\ metered = <<>>
    /\ probed = <<>>
    /\ ext_fds = 0
    /\ printed = <<>>
    /\ recvs = 0
    /\ size = 0
    /\ total = 0
    /\ delivered = 0
    /\ first_recv = "none"
    /\ menu = <<>>
    /\ cuts = {}
    /\ content = <<>>
    /\ response_timeout = RESPONSE_TIMEOUT
    /\ gap = 0
    /\ nul_at = {}

\* ------------------------------------------------------------ gopher_connect

\* gopher_connect up to the call of the handler: the socket is created and
\* connected, request || CRLF is sent (the result of send is not looked at).
ConnectSelectorOnly(f, request) ==
    /\ fd_open' = fd_open + 1
    /\ call' = "open"
    /\ func' = f
    /\ new_request' = request
    /\ recvs' = 0
    /\ sent' = Append(sent, [func |-> f, request |-> request \o <<CR, LF>>])

Connect(f, request) ==
    /\ fd_open' = fd_open + 1
    /\ call' = "open"
    /\ func' = f
    /\ new_request' = request \o <<CR, LF>>
    /\ recvs' = 0
    /\ sent' = Append(sent, [func |-> f, request |-> request \o <<CR, LF>>])

\* The program is about to call gopher_connect.
AtCallSite ==
    /\ status = "running"
    /\ call = "idle"
    /\ \/ pc = "main_root"
       \/ pc = "main_loop" /\ c <= Len(list) /\ list[c].item_type = DIRECTORY
       \/ pc = "walk" /\ c <= Len(list) /\ list[c].item_type \in {TEXT, BINARY}
       \/ pc = "print"

\* socket, setsockopt or connect fails: exit(EXIT_FAILURE), with the socket
\* open unless it was socket that failed.  In evaluate the entry has been
\* counted before the call.
ConnectFailure ==
    /\ AtCallSite
    /\ status' = "exit_failure"
    /\ \E failed \in {"socket", "setsockopt", "connect"} :
           fd_open' = fd_open + (IF failed = "socket" THEN 0 ELSE 1)
    /\ IF pc = "walk"
       THEN /\ num_of_text_files' =
                   num_of_text_files + (IF list[c].item_type = TEXT THEN 1 ELSE 0)
            /\ num_of_binary_files' =
                   num_of_binary_files + (IF list[c].item_type = BINARY THEN 1 ELSE 0)
            /\ UNCHANGED <<num_of_directories, num_of_invalid_references>>
       ELSE UNCHANGED counts
    /\ UNCHANGED <<pc, call, func, new_request, output, list, c, sizes, history, stream>>

ReturnNoClose(r) ==
    /\ list' = r.list
    /\ output' = r.ret
    /\ recvs' = r.recvs
    /\ fd_open' = fd_open
    /\ call' = IF r.fault THEN call ELSE "returned"
    /\ status' = IF r.fault THEN "segv" ELSE status

\* The handler has returned (close(fd), return output), or the process died
\* in it.
Return(r) ==
    /\ list' = r.list
    /\ output' = r.ret
    /\ recvs' = r.recvs
    /\ fd_open' = IF r.fault THEN fd_open ELSE fd_open - 1
    /\ call' = IF r.fault THEN call ELSE "returned"
    /\ status' = IF r.fault THEN "segv" ELSE status

Indexing ==
    /\ status = "running" /\ call = "open" /\ func = "indexing"
    /\ \E resp \in MenuResponses, buf \in StaleBuffers :
           /\ Return(indexing(new_request, list, resp, buf))
           /\ first_recv' = Ev(resp, 1).kind
           /\ nul_at' = terminator_writes(resp, indexing(new_request, list, resp, buf))
    /\ UNCHANGED <<pc, func, new_request, c, counts, sizes, sent, metered, probed, ext_fds,
                   printed, size, total, delivered, menu, cuts, content,
                   response_timeout, gap>>

EvaluateFileSize ==
    /\ status = "running" /\ call = "open" /\ func = "evaluate_file_size"
    /\ \E resp \in FileResponses :
           /\ Return(evaluate_file_size(new_request, list, resp))
           /\ first_recv' = Ev(resp, 1).kind
    /\ UNCHANGED <<pc, func, new_request, c, counts, sizes, sent, metered, probed, ext_fds,
                   printed, size, total, delivered, menu, cuts, content,
                   response_timeout, gap, nul_at>>

PrintResponse ==
    /\ status = "running" /\ call = "open" /\ func = "print_response"
    /\ \E resp \in ContentResponses :
           LET r == print_response(new_request, list, resp)
           IN  /\ Return(r) /\ printed' = r.out /\ first_recv' = Ev(resp, 1).kind
               /\ content' = Served(resp)
               /\ nul_at' = terminator_writes(resp, r)
    /\ UNCHANGED <<pc, func, new_request, c, counts, sizes, sent, metered, probed, ext_fds,
                   size, total, delivered, menu, cuts, response_timeout, gap>>

\* ------------------------------------------------------------ main

MainRoot ==
    /\ status = "running" /\ pc = "main_root" /\ call = "idle"
    /\ Connect("indexing", <<>>)
    /\ UNCHANGED <<status, pc, output, list, c, counts, sizes, metered, probed, ext_fds,
                   printed, stream>>

RootReturn ==
    /\ status = "running" /\ pc = "main_root" /\ call = "returned"
    /\ call' = "idle"
    /\ pc' = "main_loop"
    /\ c' = 1
    /\ UNCHANGED <<status, func, new_request, output, fd_open, list, counts, sizes, history,
                   stream>>

\* One test of the while loop of main: descend into a directory, step over
\* anything else, or leave the loop and enter evaluate.
MainLoop ==
    /\ status = "running" /\ pc = "main_loop" /\ call = "idle"
    /\ IF c > Len(list)
       THEN /\ pc' = "walk"
            /\ c' = 1
            /\ UNCHANGED <<call, func, new_request, fd_open, sent, recvs>>
       ELSE IF list[c].item_type = DIRECTORY
       THEN /\ Connect("indexing", list[c].record)
            /\ UNCHANGED <<pc, c>>
       ELSE /\ c' = c + 1
            /\ UNCHANGED <<pc, call, func, new_request, fd_open, sent, recvs>>
    /\ UNCHANGED <<status, output, list, counts, sizes, metered, probed, ext_fds, printed,
                   stream>>

LoopReturnNoAdvance ==
    /\ status = "running" /\ pc = "main_loop" /\ call = "returned"
    /\ call' = "idle"
    /\ UNCHANGED <<status, pc, func, new_request, output, fd_open, list, c, counts, sizes,
                   history, stream>>

\* gopher_connect has returned into the loop of main: c = c->next.
LoopReturn ==
    /\ status = "running" /\ pc = "main_loop" /\ call = "returned"
    /\ call' = "idle"
    /\ c' = c + 1
    /\ UNCHANGED <<status, pc, func, new_request, output, fd_open, list, counts, sizes,
                   history, stream>>

\* ------------------------------------------------------------ evaluate

\* One test of the first while loop of evaluate, up to the call of
\* gopher_connect for a file or to the next entry.
Walk ==
    /\ status = "running" /\ pc = "walk" /\ call = "idle"
    /\ IF c > Len(list)
       THEN /\ pc' = "print"
            /\ UNCHANGED <<call, func, new_request, fd_open, sent, recvs, c, counts>>
       ELSE LET t == list[c].item_type
            IN  /\ num_of_directories' = num_of_directories + (IF t = DIRECTORY THEN 1 ELSE 0)
                /\ num_of_text_files' = num_of_text_files + (IF t = TEXT THEN 1 ELSE 0)
                /\ num_of_binary_files' = num_of_binary_files + (IF t = BINARY THEN 1 ELSE 0)
                /\ num_of_invalid_references' =
                       num_of_invalid_references + (IF t = ERROR THEN 1 ELSE 0)
                /\ IF t \in {TEXT, BINARY}
                   THEN /\ Connect("evaluate_file_size", list[c].record)
                        /\ UNCHANGED <<pc, c>>
                   ELSE /\ c' = c + 1
                        /\ UNCHANGED <<pc, call, func, new_request, fd_open, sent, recvs>>
    /\ UNCHANGED <<status, output, list, sizes, metered, probed, ext_fds, printed, stream>>

smaller_wrong(file_size, smallest) == smallest = -1 \/ file_size > smallest

smaller(file_size, smallest) == smallest = -1 \/ file_size < smallest

\* The test that updates size_of_largest_text_file compares with the largest
\* binary size.
larger_text(file_size, largest_text, largest_binary) ==
    largest_text = -1 \/ file_size > largest_binary

larger_binary(file_size, largest_binary) ==
    largest_binary = -1 \/ file_size > largest_binary

\* The rest of case TEXT / case BINARY once gopher_connect has returned.
WalkReturn ==
    /\ status = "running" /\ pc = "walk" /\ call = "returned"
    /\ call' = "idle"
    /\ c' = c + 1
    /\ metered' = Append(metered, [entry |-> c, file_size |-> output])
    /\ list' = IF output = -1
               THEN add_item(list, create_new_entry(TOO_LARGE, list[c].record))
               ELSE list
    /\ IF output \in {-1, -2}
       THEN UNCHANGED sizes
       ELSE IF list[c].item_type = TEXT
       THEN /\ IF smaller(output, size_of_smallest_text_file)
               THEN size_of_smallest_text_file' = output /\ smallest_text_file' = c
               ELSE UNCHANGED <<size_of_smallest_text_file, smallest_text_file>>
            /\ size_of_largest_text_file' =
                   IF larger_text(output, size_of_largest_text_file,
                                  size_of_largest_binary_file)
                   THEN output ELSE size_of_largest_text_file
            /\ UNCHANGED <<size_of_smallest_binary_file, size_of_largest_binary_file>>
       ELSE /\ size_of_smallest_binary_file' =
                   IF smaller(output, size_of_smallest_binary_file)
                   THEN output ELSE size_of_smallest_binary_file
            /\ size_of_largest_binary_file' =
                   IF larger_binary(output, size_of_largest_binary_file)
                   THEN output ELSE size_of_largest_binary_file
            /\ UNCHANGED <<smallest_text_file, size_of_smallest_text_file,
                           size_of_largest_text_file>>
    /\ UNCHANGED <<status, pc, func, new_request, output, fd_open, counts, sent, probed,
                   ext_fds, printed, recvs, stream>>

\* gopher_connect(print_response, smallest_text_file): with no smallest text
\* file the socket is connected and strlen(NULL) then reads through the null
\* pointer.
PrintSmallest ==
    /\ status = "running" /\ pc = "print" /\ call = "idle"
    /\ IF smallest_text_file = NULL
       THEN /\ status' = "segv"
            /\ fd_open' = fd_open + 1
            /\ UNCHANGED <<call, func, new_request, sent, recvs>>
       ELSE /\ Connect("print_response", list[smallest_text_file].record)
            /\ UNCHANGED status
    /\ UNCHANGED <<pc, output, list, c, counts, sizes, metered, probed, ext_fds, printed,
                   stream>>

PrintReturn ==
    /\ status = "running" /\ pc = "print" /\ call = "returned"
    /\ call' = "idle"
    /\ pc' = "ext"
    /\ c' = 1
    /\ UNCHANGED <<status, func, new_request, output, fd_open, list, counts, sizes, history,
                   stream>>

\* One test of the second while loop of evaluate.
Ext ==
    /\ status = "running" /\ pc = "ext"
    /\ IF c > Len(list)
       THEN /\ pc' = "issues"
            /\ UNCHANGED <<status, c, probed, ext_fds>>
       ELSE IF list[c].item_type = EXTERNAL
       THEN \E setup \in ProbeSetups, connects \in BOOLEAN :
                LET r == test_external_servers(list[c], setup, connects)
                IN  /\ probed' = IF r.exit THEN probed
                                 ELSE Append(probed, [entry |-> c, attempt |-> r.attempt,
                                                      fault |-> r.fault, line |-> r.line])
                    /\ ext_fds' = ext_fds + (IF r.socket THEN 1 ELSE 0)
                    /\ status' = IF r.exit THEN "exit_failure"
                                 ELSE IF r.fault THEN "segv" ELSE status
                    /\ c' = IF r.exit \/ r.fault THEN c ELSE c + 1
                    /\ UNCHANGED pc
       ELSE /\ c' = c + 1
            /\ UNCHANGED <<status, pc, probed, ext_fds>>
    /\ UNCHANGED <<call, func, new_request, output, fd_open, list, counts, sizes, sent,
                   metered, printed, recvs, stream>>

\* The third while loop of evaluate (it prints the entries with issues), then
\* cleanup frees the list and main returns 0.
Issues ==
    /\ status = "running" /\ pc = "issues"
    /\ status' = "done"
    /\ UNCHANGED <<ctl, list, c, counts, sizes, history, stream>>

Next ==
    \/ MainRoot
    \/ RootReturn
    \/ MainLoop
    \/ LoopReturn
    \/ Walk
    \/ WalkReturn
    \/ PrintSmallest
    \/ PrintReturn
    \/ Ext
    \/ Issues
    \/ ConnectFailure
    \/ Indexing
    \/ EvaluateFileSize
    \/ PrintResponse

Spec == Init /\ [][Next]_vars

\* The crawl alone: main up to the call of evaluate.  The program runs on, so
\* a step that can be taken is taken.
CrawlNext ==
    \/ MainRoot
    \/ RootReturn
    \/ MainLoop
    \/ LoopReturn
    \/ ConnectFailure
    \/ Indexing

CrawlSpec == Init /\ [][CrawlNext]_vars /\ WF_vars(CrawlNext)

\* ------------------------------------------------------------ the size meter, recv by recv

\* The files served to the meter.  A file is followed from its first byte when
\* it has at most MaxSmallFile bytes; a file about as long as FILE_LIMIT is
\* followed from the moment when MeterWindow bytes are missing to FILE_LIMIT.
\* MaxRecvs is where the count of the recv calls stops being kept.
MaxSmallFile == 24
MeterWindow == 1024
MaxRecvs == 3
MeterStarts ==
    {<<t, 0>> : t \in 0..MaxSmallFile}
        \cup {<<t, FILE_LIMIT - MeterWindow>> :
                  t \in {FILE_LIMIT - 1, FILE_LIMIT, FILE_LIMIT + 1, FILE_LIMIT + BUFFER_SIZE}}

\* The root menu listed the text file /t, and evaluate has sent the request
\* for it: the server sends a file of t bytes, of which evaluate_file_size has
\* received and counted d (by then it has made MaxRecvs recv calls or more).
MeterAt(t, d) ==
    /\ status = "running"
    /\ pc = "walk"
    /\ call = "open"
    /\ func = "evaluate_file_size"
    /\ new_request = <<"/", "t">> \o <<CR, LF>>
    /\ output = 0
    /\ fd_open = 1
    /\ list = <<create_new_entry(TEXT, <<"/", "t">>)>>
    /\ c = 1
    /\ num_of_directories = 0
    /\ num_of_text_files = 1
    /\ num_of_binary_files = 0
    /\ num_of_invalid_references = 0
    /\ smallest_text_file = NULL
    /\ size_of_smallest_text_file = -1
    /\ size_of_largest_text_file = -1
    /\ size_of_smallest_binary_file = -1
    /\ size_of_largest_binary_file = -1
    /\ sent = <<[func |-> "indexing", request |-> <<CR, LF>>],
                [func |-> "evaluate_file_size", request |-> <<"/", "t", CR, LF>>]>>
    /\ metered = <<>>
    /\ probed = <<>>
    /\ ext_fds = 0
    /\ printed = <<>>
    /\ recvs = IF d = 0 THEN 0 ELSE MaxRecvs
    /\ size = d
    /\ total = t
    /\ delivered = d
    /\ first_recv = IF d = 0 THEN "none" ELSE "data"
    /\ menu = <<>>
    /\ cuts = {}
    /\ content = <<>>
    /\ response_timeout = RESPONSE_TIMEOUT
    /\ gap = 0
    /\ nul_at = {}

MeterInit == \E s \in MeterStarts : MeterAt(s[1], s[2])

\* What the next recv(fd, buffer, BUFFER_SIZE, 0) may return when the server
\* sends the whole file and closes: any number of the bytes that are left, from
\* 1 to BUFFER_SIZE, then end of stream.
NextRecv ==
    IF delivered = total THEN {Eof}
    ELSE {Bulk(n) : n \in 1..(IF total - delivered < BUFFER_SIZE
                              THEN total - delivered ELSE BUFFER_SIZE)}

\* The count of the recv calls, kept up to MaxRecvs.
counted(n) == IF n < MaxRecvs THEN n + 1 ELSE n

\* One recv of evaluate_file_size and what follows it up to the next recv or
\* the return.
MeterRecv ==
    /\ status = "running" /\ call = "open" /\ func = "evaluate_file_size"
    /\ \E ev \in NextRecv :
           LET f == IF recvs = 0 THEN meter_first(new_request, list, ev)
                    ELSE meter_next(list, size, ev)
               r == IF f.done THEN f ELSE meter_body(new_request, f.list, f.size, ev)
           IN  /\ recvs' = counted(recvs)
               /\ delivered' = delivered + ev.n
               /\ size' = r.size
               /\ list' = r.list
               /\ call' = IF r.done THEN "returned" ELSE call
               /\ output' = IF r.done THEN r.ret ELSE output
               /\ fd_open' = IF r.done THEN fd_open - 1 ELSE fd_open
               /\ first_recv' = IF recvs = 0 THEN ev.kind ELSE first_recv
    /\ UNCHANGED <<status, pc, func, new_request, c, counts, sizes, sent, metered, probed,
                   ext_fds, printed, total, menu, cuts, content, response_timeout, gap,
                   nul_at>>

MeterNext ==
    \/ MeterRecv
    \/ WalkReturn

MeterSpec == MeterInit /\ [][MeterNext]_vars

\* ------------------------------------------------------------ the size meter, with time

\* The times, in whole seconds, between two chunks, up to the longest, and the
\* longest file served.
MaxGap == 6
Gaps == 0..MaxGap
MaxTimedFile == 4

\* select(fd + 1, &read_fds, NULL, NULL, &response_timeout) when the next
\* chunk (or the end of the stream) is g seconds away: it returns 0 when the
\* time left in the timeval runs out before the socket is readable; what has
\* arrived by the time the timeval runs out (at once, with nothing left in the
\* timeval) is found readable.
select_expires(g, timeval) == g > timeval

\* What select may leave in the timeval when it returns after g seconds: POSIX
\* lets it write the time not slept there (Linux does) or leave it alone.
timeval_after(g, timeval) ==
    {timeval, IF g >= timeval THEN 0 ELSE timeval - g}

\* One recv of evaluate_file_size and what follows it up to the next recv or
\* the return, the select waiting `g` seconds for what the server sends next.
DeadlineRecv ==
    /\ status = "running" /\ call = "open" /\ func = "evaluate_file_size"
    /\ \E e \in NextRecv, g \in Gaps :
           LET ev == IF select_expires(g, response_timeout) THEN Stalled(e) ELSE e
               f == IF recvs = 0 THEN meter_first(new_request, list, ev)
                    ELSE meter_next(list, size, ev)
               r == IF f.done THEN f ELSE meter_body(new_request, f.list, f.size, ev)
           IN  /\ recvs' = counted(recvs)
               /\ delivered' = delivered + ev.n
               /\ size' = r.size
               /\ list' = r.list
               /\ call' = IF r.done THEN "returned" ELSE call
               /\ output' = IF r.done THEN r.ret ELSE output
               /\ fd_open' = IF r.done THEN fd_open - 1 ELSE fd_open
               /\ first_recv' = IF recvs = 0 THEN ev.kind ELSE first_recv
               /\ IF f.done
                  THEN UNCHANGED <<response_timeout, gap>>
                  ELSE /\ gap' = g
                       /\ response_timeout' \in timeval_after(g, response_timeout)
    /\ UNCHANGED <<status, pc, func, new_request, c, counts, sizes, sent, metered, probed,
                   ext_fds, printed, total, menu, cuts, content, nul_at>>

DeadlineNext ==
    \/ DeadlineRecv
    \/ WalkReturn

DeadlineInit == \E t \in 0..MaxTimedFile : MeterAt(t, 0)

DeadlineSpec == DeadlineInit /\ [][DeadlineNext]_vars

\* ------------------------------------------------------------ the menu parser, chunk by chunk

\* The type characters served: directory, text, error, the binary types, and
\* types that are not indexed.
TypeChars ==
    {"1", "0", "3", "9", "4", "5", "6", "g", "I", ":", ";", "<", "d", "h", "p", "r", "s",
     "P", "X", "i", ".", "2", "7", "8", "T", "+"}

\* Well-formed lines: an absolute selector or an empty one.
WellFormedLines ==
    {Line(t, <<"n">>, sel, <<"h">>, <<"7">>) : t \in TypeChars, sel \in {<<"/", "s">>, <<>>}}

\* Malformed lines of a type that is indexed: no tab, nothing after the first
\* tab, a relative selector.
MalformedLines ==
    UNION {{<<t, "n", CR, LF>>, <<t, "n", TAB, CR, LF>>,
            Line(t, <<"n">>, <<"s">>, <<"h">>, <<"7">>)} : t \in {"0", "1", "9"}}

\* The lines that menus of more than one line are made of.
PairLines == {LDirA, LText, LBin, LErr, LExt, LInfo}

WellFormedMenus == WellFormedLines \cup {a \o b : a \in PairLines, b \in PairLines}

ParseMenus ==
    WellFormedMenus \cup MalformedLines \cup {a \o b : a \in MalformedLines, b \in PairLines}

\* The most cuts recv makes in one menu.
MaxCuts == 2

\* The places where a menu of n bytes may be cut: after byte k, for each k of the set.
CutSets(n) == {S \in SUBSET (1..(n - 1)) : Cardinality(S) <= MaxCuts}

\* The recv events of bytes served from index `from` on, cut after each index of S.
RECURSIVE Chunks(_, _, _)
Chunks(bytes, S, from) ==
    LET later == {k \in S : k >= from}
        m == CHOOSE k \in later : \A j \in later : k <= j
    IN  IF later = {} THEN <<Data(SubSeq(bytes, from, Len(bytes)))>>
        ELSE <<Data(SubSeq(bytes, from, m))>> \o Chunks(bytes, S, m + 1)

\* main has sent the root request and the server is about to send `menu`.
ParseInit ==
    /\ status = "running"
    /\ pc = "main_root"
    /\ call = "open"
    /\ func = "indexing"
    /\ new_request = <<CR, LF>>
    /\ output = 0
    /\ fd_open = 1
    /\ list = <<>>
    /\ c = NULL
    /\ num_of_directories = 0
    /\ num_of_text_files = 0
    /\ num_of_binary_files = 0
    /\ num_of_invalid_references = 0
    /\ smallest_text_file = NULL
    /\ size_of_smallest_text_file = -1
    /\ size_of_largest_text_file = -1
    /\ size_of_smallest_binary_file = -1
    /\ size_of_largest_binary_file = -1
    /\ sent = <<[func |-> "indexing", request |-> <<CR, LF>>]>>
    /\ metered = <<>>
    /\ probed = <<>>
    /\ ext_fds = 0
    /\ printed = <<>>
    /\ recvs = 0
    /\ size = 0
    /\ total = 0
    /\ delivered = 0
    /\ first_recv = "none"
    /\ menu \in ParseMenus
    /\ cuts = {}
    /\ content = <<>>
    /\ response_timeout = RESPONSE_TIMEOUT
    /\ gap = 0
    /\ nul_at = {}

\* indexing receives the menu in the chunks recv happens to return.
ParseIndexing ==
    /\ status = "running" /\ call = "open" /\ func = "indexing"
    /\ \E S \in CutSets(Len(menu)), buf \in StaleBuffers :
           /\ Return(indexing(new_request, list, Chunks(menu, S, 1), buf))
           /\ cuts' = S
           /\ nul_at' = terminator_writes(Chunks(menu, S, 1),
                                          indexing(new_request, list, Chunks(menu, S, 1), buf))
    /\ first_recv' = "data"
    /\ UNCHANGED <<pc, func, new_request, c, counts, sizes, sent, metered, probed, ext_fds,
                   printed, size, total, delivered, menu, content,
                   response_timeout, gap>>

ParseNext ==
    \/ ParseIndexing
    \/ RootReturn

ParseSpec == ParseInit /\ [][ParseNext]_vars

\* ------------------------------------------------------------ properties

CRLF == <<CR, LF>>

Entries(t) == {i \in 1..Len(list) : list[i].item_type = t}

\* The requests sent with handler f whose request line is r.
Requests(f, r) == {k \in 1..Len(sent) : sent[k].func = f /\ sent[k].request = r}

HasItem(t, r) == \E i \in 1..Len(list) : list[i].item_type = t /\ list[i].record = r

\* The walk of evaluate over the list is over.
WalkOver == pc \in {"print", "ext", "issues"}

\* C1: in every reachable state no two items of the registry have both the
\* same kind and the same record.
C1_NoDuplicateItems ==
    \A i, j \in 1..Len(list) :
        i # j => ~(list[i].item_type = list[j].item_type /\ list[i].record = list[j].record)

\* The root menu listed / and /t, and the menu of / listed them again: the
\* second answer was one chunk of data and added nothing.
C1_Witness ==
    /\ pc = "main_loop" /\ call = "returned" /\ recvs = 2
    /\ Len(sent) = 2
    /\ list = <<create_new_entry(DIRECTORY, <<"/">>), create_new_entry(TEXT, <<"/", "t">>)>>

\* C2: the crawl ends with evaluate entered, unless a connection to the
\* server fails (exit): the loop of main reaches the tail of the list.
C2_CrawlReachesAnalysis == <>(pc = "walk" \/ status = "exit_failure")

\* The crawl does not run forever: it reaches evaluate or the process ends.
CrawlEnds == <>(pc = "walk" \/ status # "running")

\* C3: for every Directory item, at most one menu request has been sent for
\* its selector.
C3_DescendedAtMostOnce ==
    \A i \in Entries(DIRECTORY) :
        Cardinality(Requests("indexing", list[i].record \o CRLF)) <= 1

\* The crawl is over, / is a Directory of the registry (a menu listed it, the
\* root menu or its own) and it was requested.
C3_Witness ==
    /\ pc = "walk"
    /\ HasItem(DIRECTORY, <<"/">>)
    /\ HasItem(DIRECTORY, <<"/", "a">>)
    /\ Cardinality(Requests("indexing", <<"/">> \o CRLF)) = 1
    /\ Cardinality(Requests("indexing", <<"/", "a">> \o CRLF)) = 1

\* C4: every size-metering attempt of evaluate ended with a size in
\* 0..FILE_LIMIT-1, or too large with a TooLarge entry for the selector in
\* the registry, or timed out with a Timeout entry for the request in the
\* registry.
C4_MeterOutcomes ==
    \A k \in 1..Len(metered) :
        LET fs == metered[k].file_size
            rec == list[metered[k].entry].record
        IN  \/ fs \in 0..(FILE_LIMIT - 1)
            \/ fs = -1 /\ HasItem(TOO_LARGE, rec)
            \/ fs = -2 /\ (HasItem(TIMEOUT, rec) \/ HasItem(TIMEOUT, rec \o CRLF))

\* C5: a file of `total` bytes delivered whole, in any chunks, is measured as
\* total when total < FILE_LIMIT and as too large (-1) otherwise; and no recv
\* is made once the bytes received have reached FILE_LIMIT.
C5_MeterExact ==
    /\ call = "open" => delivered < FILE_LIMIT
    /\ call # "open" =>
           IF total < FILE_LIMIT
           THEN output = total /\ delivered = total
           ELSE output = -1 /\ delivered >= FILE_LIMIT

\* A file of exactly FILE_LIMIT bytes was found too large when its last byte
\* was received.
C5_Witness ==
    call = "returned" /\ total = FILE_LIMIT /\ output = -1 /\ delivered = FILE_LIMIT

\* The sizes measured for the entries of type t.
Measured(t) ==
    {metered[k].file_size : k \in {j \in 1..Len(metered) :
        list[metered[j].entry].item_type = t /\ metered[j].file_size >= 0}}

SetMax(S) == CHOOSE x \in S : \A y \in S : y <= x
SetMin(S) == CHOOSE x \in S : \A y \in S : x <= y

\* C7: after the walk the largest and smallest sizes of each class are the
\* maximum and minimum of the sizes measured for that class, and the smallest
\* text file is a Text entry measured with that minimum.
C7_ExactPerClass ==
    WalkOver =>
        /\ Measured(TEXT) # {} =>
               /\ size_of_largest_text_file = SetMax(Measured(TEXT))
               /\ size_of_smallest_text_file = SetMin(Measured(TEXT))
               /\ smallest_text_file \in Entries(TEXT)
               /\ \E k \in 1..Len(metered) :
                      /\ metered[k].entry = smallest_text_file
                      /\ metered[k].file_size = SetMin(Measured(TEXT))
        /\ Measured(BINARY) # {} =>
               /\ size_of_largest_binary_file = SetMax(Measured(BINARY))
               /\ size_of_smallest_binary_file = SetMin(Measured(BINARY))

\* The connect attempts made for entry i.
Attempts(i) == {k \in 1..Len(probed) : probed[k].entry = i /\ probed[k].attempt}

\* The record of an ExternalRef names the primary endpoint.
IsPrimary(record) ==
    LET h == strtok(record, 1, {TAB})
        p == strtok(record, h.save, {CR, LF})
    IN  ~h.null /\ ~p.null /\ gethostbyname(h.tok) = server_addr /\ atoi(p.tok) = port

\* C8: when a run that reached the probes of evaluate has ended (main
\* returned, or the process died), every ExternalRef has had exactly one
\* connect attempt, and one that names the primary endpoint none.
C8_ProbedExactlyOnce ==
    (status \in {"done", "segv"} /\ pc \in {"ext", "issues"}) =>
        \A i \in Entries(EXTERNAL) :
            Cardinality(Attempts(i)) = IF IsPrimary(list[i].record) THEN 0 ELSE 1

\* C9: the registry holds at most one InvalidRef per request selector, and
\* the fields of a line of type 3 (the server's only such line carries the
\* selector /e, the host x and the port 1) are the record of no item.
C9_InvalidRefCollapses ==
    /\ \A i, j \in Entries(ERROR) : list[i].record = list[j].record => i = j
    /\ \A i \in 1..Len(list) : list[i].record \notin {<<"/", "e">>, <<"x", TAB, "1">>}

\* made no other recv.
C11_TimeoutOnlyRecords ==
    [][(call = "open" /\ func = "indexing" /\ call' = "returned" /\ first_recv' = "timeout")
           => /\ list' = add_item(list, create_new_entry(TIMEOUT, new_request))
              /\ recvs' = 1]_vars

\* C12: a handler whose first recv failed (not a timeout) has not returned to
\* a running program unless the registry records the request as skipped, and
\* it made no other recv.
C12_FailureNotIgnored ==
    (status = "running" /\ call = "returned" /\ first_recv = "fail")
        => /\ \E i \in Entries(ERROR) \cup Entries(TIMEOUT) \cup Entries(TOO_LARGE) :
                  list[i].record = new_request
           /\ recvs = 1

\* C13: when the walk of evaluate ends with no text file measured, no content
\* request is sent and the process does not die at the print step; with an empty
\* registry (empty root response) the four counts are 0.
C13_NoTextNoContent ==
    (WalkOver /\ smallest_text_file = NULL) =>
        /\ \A k \in 1..Len(sent) : sent[k].func # "print_response"
        /\ pc = "print" => status # "segv"
        /\ list = <<>> => /\ num_of_directories = 0 /\ num_of_text_files = 0
                          /\ num_of_binary_files = 0 /\ num_of_invalid_references = 0

\* The host and port fields of the record of an ExternalRef.
ExtHost(record) == strtok(record, 1, {TAB})
ExtPort(record) == strtok(record, ExtHost(record).save, {CR, LF})

\* C14: no probe of an ExternalRef ends the process, and the probe of one whose
\* host does not resolve, or whose connect does not complete, prints it as down.
C14_UnresolvedIsDown ==
    \A k \in 1..Len(probed) :
        LET rec == list[probed[k].entry].record
        IN  /\ ~probed[k].fault
            /\ (~ExtHost(rec).null /\ gethostbyname(ExtHost(rec).tok) = "NULL")
                   => probed[k].line = <<ExtHost(rec).tok, ExtPort(rec).tok, FALSE>>

\* C15: between the probes of evaluate and after them no probe socket is open.
C15_ProbeSocketsReleased ==
    (pc \in {"ext", "issues"} /\ status \in {"running", "done"}) => ext_fds = 0

\* C16: a socket to the primary server is open exactly while a handler runs:
\* one while a request is open, none between requests and none when main has
\* returned; so each is closed once, before the next is opened.
C16_SessionClosed ==
    status \in {"running", "done"} => fd_open = (IF call = "open" THEN 1 ELSE 0)

\* The run is complete after requests that ended in an empty response, a read
\* timeout, a timeout between chunks and a file over the limit.
C16_Witness ==
    /\ status = "done" /\ fd_open = 0
    /\ Entries(TIMEOUT) # {} /\ Entries(TOO_LARGE) # {}
    /\ \E k \in 1..Len(metered) : metered[k].file_size = 0
    /\ Len(sent) >= 5

\* The handler of the menu request is over: it returned or the process died.
ParseOver == call = "returned" \/ status = "segv"

\* What indexing makes of the menu when it arrives in one chunk.
WholeMenu == indexing(new_request, <<>>, <<Data(menu)>>, <<>>)

\* C17: for every well-formed menu and every split of it into recv chunks,
\* the handler returns and the registry is the one obtained when the menu
\* arrives in one chunk.
C17_ChunkIndependent ==
    (ParseOver /\ pc = "main_root" /\ menu \in WellFormedMenus) =>
        /\ status = "running"
        /\ list = WholeMenu.list

\* C18: a malformed line of an indexed type, received whole and followed or
\* not by a well-formed line, adds nothing to the registry and does not end
\* the process, and the line after it is indexed as if it came alone.
C18_MalformedSkipped ==
    \A m \in MalformedLines, b \in PairLines \cup {<<>>} :
        (ParseOver /\ pc = "main_root" /\ menu = m \o b /\ cuts = {}) =>
            /\ status = "running"
            /\ list = indexing(new_request, <<>>, <<Data(b)>>, <<>>).list

\* The binary types of the classifier table.
BinaryTypes ==
    {"9", "4", "5", "6", "g", "I", ":", ";", "<", "d", "h", "p", "r", "s", "P", "X"}

\* The items the classifier table gives for a line of type t with selector
\* sel, host h and port 7, in answer to `request`.
Classified(t, sel, request) ==
    IF t = "3" THEN <<[item_type |-> ERROR, record |-> request]>>
    ELSE IF t = "1" /\ sel = <<>> THEN <<[item_type |-> EXTERNAL, record |-> <<"h", TAB, "7">>]>>
    ELSE IF sel = <<>> THEN <<>>
    ELSE IF t = "1" THEN <<[item_type |-> DIRECTORY, record |-> sel]>>
    ELSE IF t = "0" THEN <<[item_type |-> TEXT, record |-> sel]>>
    ELSE IF t \in BinaryTypes THEN <<[item_type |-> BINARY, record |-> sel]>>
    ELSE <<>>

\* C19: a well-formed line received whole is indexed as the classifier table
\* says, for every type character, with an absolute and with an empty selector.
C19_ClassifierTable ==
    \A t \in TypeChars, sel \in {<<"/", "s">>, <<>>} :
        (ParseOver /\ pc = "main_root" /\ cuts = {}
             /\ menu = Line(t, <<"n">>, sel, <<"h">>, <<"7">>)) =>
            /\ status = "running"
            /\ list = Classified(t, sel, new_request)

\* A line of type 1 with an empty selector gave the ExternalRef of its host
\* and port.
C19_Witness ==
    /\ call = "returned" /\ cuts = {}
    /\ menu = Line("1", <<"n">>, <<>>, <<"h">>, <<"7">>)
    /\ list = <<[item_type |-> EXTERNAL, record |-> <<"h", TAB, "7">>]>>

\* C20: every step leaves the items of the registry as they are, in their
\* order, and appends only items whose kind and record are not there yet; the
\* insertion of the TooLarge label of a file appends that one item when it is
\* new and changes nothing when it is present.
C20_AppendOnly ==
    [][/\ Len(list') >= Len(list)
       /\ SubSeq(list', 1, Len(list)) = list
       /\ \A i \in (Len(list) + 1)..Len(list') : \A j \in 1..(i - 1) :
              ~(list'[j].item_type = list'[i].item_type /\ list'[j].record = list'[i].record)
       /\ (pc = "walk" /\ call = "returned" /\ status = "running") =>
              list' = IF output = -1 /\ ~HasItem(TOO_LARGE, list[c].record)
                      THEN Append(list, [item_type |-> TOO_LARGE, record |-> list[c].record])
                      ELSE list]_vars

\* The menu of / arrived as data and listed / and /t, which the root menu had
\* listed: both insertions found the item present and the registry is as it
\* was.
C20_Witness ==
    /\ pc = "main_loop" /\ call = "returned" /\ c = 1
    /\ first_recv = "data"
    /\ sent = <<[func |-> "indexing", request |-> CRLF],
                [func |-> "indexing", request |-> <<"/">> \o CRLF]>>
    /\ list = <<[item_type |-> DIRECTORY, record |-> <<"/">>],
                [item_type |-> TEXT, record |-> <<"/", "t">>]>>

IsDirectory(e) == e.item_type = DIRECTORY
IsMenuRequest(r) == r.func = "indexing"

\* The request lines of the menu requests sent, in the order they were sent,
\* and the Directory items of the registry, in registry order.
MenuRequests == SelectSeq(sent, IsMenuRequest)
Directories == SelectSeq(list, IsDirectory)

\* C21: once the crawl is over, the menu requests sent after the root request
\* are the requests for the Directory items of the registry, one each, in
\* registry order.
C21_CrawlOrder ==
    pc \in {"walk", "print", "ext", "issues"} =>
        /\ Len(MenuRequests) = Len(Directories) + 1
        /\ \A i \in 1..Len(Directories) :
               MenuRequests[i + 1].request = Directories[i].record \o CRLF

\* The crawl is over; the directory /a was found in the menu of / while the
\* list was being walked, and was requested after /.
C21_Witness ==
    /\ pc = "walk" /\ c = 1
    /\ Len(Directories) = 2
    /\ list[1] = [item_type |-> DIRECTORY, record |-> <<"/">>]
    /\ \E i \in 3..Len(list) : list[i] = [item_type |-> DIRECTORY, record |-> <<"/", "a">>]
    /\ Len(MenuRequests) = 3

\* Where the terminator sequence . CR LF starts in a sequence of bytes.
Terminators(b) == {i \in 1..(Len(b) - 2) : b[i] = "." /\ b[i + 1] = CR /\ b[i + 2] = LF}

\* The bytes that precede the first terminator sequence, all of them if
\* there is none.
BeforeTerminator(b) ==
    IF Terminators(b) = {} THEN b
    ELSE SubSeq(b, 1, (CHOOSE i \in Terminators(b) : \A j \in Terminators(b) : i <= j) - 1)

\* C22: when the printer has returned after a transfer that began with data
\* and ended with the end of the stream, what it wrote is the bytes sent
\* before the first terminator sequence, however they were cut into chunks.
C22_StopsAtTerminator ==
    (pc = "print" /\ call = "returned" /\ first_recv = "data" /\ output = 0)
        => printed = BeforeTerminator(content)

\* C23: the size meter declares a transfer that has begun timed out only when
\* the chunk it was waiting for was RESPONSE_TIMEOUT seconds or more away.
C23_DeadlinePerChunk ==
    (func = "evaluate_file_size" /\ call = "returned" /\ first_recv = "data"
         /\ output = -2)
        => gap >= RESPONSE_TIMEOUT

\* C24: every write of a terminator into the receive buffer of the menu
\* indexer and of the content printer is at an index in 0..BUFFER_SIZE-1.
C24_WritesInBounds ==
    \A i \in nul_at : i \in 0..(BUFFER_SIZE - 1)

====
